---- MODULE Spec2Model ----
(***************************************************************************)
(* Session broker and feedback bridge of mcp-interactive-feedback.         *)
(*                                                                         *)
(* The model follows the single-threaded event loop of the process: every  *)
(* action is one macrotask (a socket event, an HTTP request, a tool call,  *)
(* a timer callback, a signal handler) run up to its first real            *)
(* suspension point, together with the microtasks it triggers.             *)
(*                                                                         *)
(* JavaScript objects are references.  A SessionData object stays alive    *)
(* after it has been removed from the Map while a suspended handler or a   *)
(* timer closure still holds it, so the model keeps a heap of session      *)
(* objects (objs), a heap of feedback arrays (arrays) and the Map itself   *)
(* (table, from session id to object).                                     *)
(***************************************************************************)
EXTENDS Integers, Sequences, FiniteSets, TLC

\* ---------------------------------------------------------------- bounds
MaxEvents == 3      \* sessions created plus submissions validated in one run

\* ------------------------------------------------------------- constants
MsPerSecond == 1000 \* timeoutSeconds * 1000, session.timeout / 1000
TickMs == 10 * MsPerSecond   \* the clock advances in steps of ten seconds

DialogTimeouts == {10, 20}   \* config.dialogTimeout, seconds
TestTimeouts == {10, 20}     \* timeout_seconds of POST /api/test-session
NoSuchId == 0                \* a session id no session was created with

VARIABLES
  dialogTimeout,  \* config.dialogTimeout, seconds
  objs,           \* heap of SessionData objects, in creation order
  elapsed,        \* Date.now() - startTime of the objects on the clock
  arrays,         \* heap of feedback arrays; objs[o].fb points into it
  table,          \* SessionStorage.sessions: session id -> object
  inflight,       \* handleFeedbackSubmission calls awaiting processImages
  nsub,           \* submit_feedback events that passed validation so far;
                  \* the n-th of them is identified by the number n
  lastEmit,       \* what the latest step answered (socket event, tool result)
  cleanupArmed,   \* SessionStorage.cleanupInterval is set
  webRunning,     \* WebServer.isServerRunning
  mcpRunning,     \* MCPServer.isRunning
  transportOpen,  \* the stdio transport delivers tool calls
  stopPc,         \* position of the signal handler inside stop()
  proc            \* "constructed", "running" or "exited"

\* Port negotiation (PortManager, ProcessManager, WebServer.start).
VARIABLES
  op,             \* the port operation under way and its arguments
  stack,          \* its pending awaits, innermost last
  ret,            \* what the operation returned or threw
  occ,            \* pid of the process seen on the target port (0: none)
  listening,      \* that process holds the port bound
  free,           \* the other ports a listener can bind
  info,           \* processInfo of the running cleanupPort / forceReleasePort
  waited,         \* Date.now() - startTime of the running waitForPortRelease
  scan,           \* position of the running findAvailablePort
  webPort,        \* WebServer.port
  trail,          \* what the operation has done so far
  probe,          \* the test server of the running isPortAvailable
  config          \* the configuration getConfig builds, and validateConfig's verdict

portVars == <<op, stack, ret, occ, listening, free, info, waited, scan,
              webPort, trail, probe, config>>

brokerVars == <<dialogTimeout, objs, elapsed, arrays, table, inflight, nsub, lastEmit,
                cleanupArmed, webRunning, mcpRunning, transportOpen, stopPc, proc>>

vars == <<dialogTimeout, objs, elapsed, arrays, table, inflight, nsub, lastEmit,
          cleanupArmed, webRunning, mcpRunning, transportOpen, stopPc, proc,
          op, stack, ret, occ, listening, free, info, waited, scan,
          webPort, trail, probe, config>>

sessionVars == <<objs, elapsed, arrays, table>>
lifecycleVars == <<cleanupArmed, webRunning, mcpRunning, transportOpen, stopPc, proc>>

\* ------------------------------------------------------ process inspection
\* A string is the sequence of its characters.
UpperCase ==
  <<"A", "B", "C", "D", "E", "F", "G", "H", "I", "J", "K", "L", "M", "N", "O", "P", "Q", "R", "S", "T", "U", "V", "W", "X", "Y", "Z">>

LowerCase ==
  <<"a", "b", "c", "d", "e", "f", "g", "h", "i", "j", "k", "l", "m", "n", "o", "p", "q", "r", "s", "t", "u", "v", "w", "x", "y", "z">>

\* String.prototype.toLowerCase
toLowerCase(str) ==
  [i \in 1..Len(str) |->
     IF \E k \in 1..Len(UpperCase) : UpperCase[k] = str[i]
     THEN LowerCase[CHOOSE k \in 1..Len(UpperCase) : UpperCase[k] = str[i]]
     ELSE str[i]]

\* String.prototype.includes
includes(str, sub) ==
  \E i \in 0..(Len(str) - Len(sub)) : SubSeq(str, i + 1, i + Len(sub)) = sub

\* ProcessManager.isSafeToKill: the allow list ...
safePrefixes ==
  <<<<"n", "o", "d", "e">>,
    <<"n", "p", "m">>,
    <<"n", "p", "x">>,
    <<"m", "c", "p", "-", "i", "n", "t", "e", "r", "a", "c", "t", "i", "v", "e", "-", "f", "e", "e", "d", "b", "a", "c", "k">>,
    <<"t", "s", "x">>>>

\* ... and the deny list, in the order the loops visit them.
dangerousNames ==
  <<<<"s", "y", "s", "t", "e", "m">>,
    <<"k", "e", "r", "n", "e", "l">>,
    <<"i", "n", "i", "t">>,
    <<"s", "y", "s", "t", "e", "m", "d">>,
    <<"e", "x", "p", "l", "o", "r", "e", "r", ".", "e", "x", "e">>,
    <<"w", "i", "n", "l", "o", "g", "o", "n", ".", "e", "x", "e">>,
    <<"c", "s", "r", "s", "s", ".", "e", "x", "e">>,
    <<"s", "m", "s", "s", ".", "e", "x", "e">>,
    <<"s", "e", "r", "v", "i", "c", "e", "s", ".", "e", "x", "e">>>>

\* for (const entry of list) if (name.includes(entry) || command.includes(entry))
RECURSIVE AnyIncluded(_, _, _, _)
AnyIncluded(list, k, processName, processCommand) ==
  IF k > Len(list) THEN FALSE
  ELSE IF includes(processName, list[k]) \/ includes(processCommand, list[k]) THEN TRUE
  ELSE AnyIncluded(list, k + 1, processName, processCommand)

\* Mutant of isSafeToKill: the allow list is consulted before the deny list.
isSafeToKillAllowFirst(processInfo) ==
  LET processName == toLowerCase(processInfo.name)
      processCommand == toLowerCase(processInfo.command)
  IN IF AnyIncluded(safePrefixes, 1, processName, processCommand) THEN TRUE
     ELSE FALSE

\* ProcessManager.isSafeToKill
isSafeToKill(processInfo) ==
  LET processName == toLowerCase(processInfo.name)
      processCommand == toLowerCase(processInfo.command)
  IN IF AnyIncluded(dangerousNames, 1, processName, processCommand) THEN FALSE
     ELSE IF AnyIncluded(safePrefixes, 1, processName, processCommand) THEN TRUE
     ELSE FALSE

\* The processes the environment may put on a port; the pid of a process is
\* its position.
Processes ==
  <<[name |-> <<"n", "o", "d", "e">>,
     command |-> <<"n", "o", "d", "e", " ", "a", "p", "p", ".", "j", "s">>],
    [name |-> <<"s", "s", "h", "d">>,
     command |-> <<"s", "s", "h", "d">>],
    [name |-> <<"s", "y", "s", "t", "e", "m", "d">>,
     command |-> <<"s", "y", "s", "t", "e", "m", "d">>],
    [name |-> <<"n", "p", "m">>,
     command |-> <<"n", "p", "m", " ", "i", "n", "i", "t">>],
    [name |-> <<"U", "n", "k", "n", "o", "w", "n">>,
     command |-> <<"U", "n", "k", "n", "o", "w", "n">>],
    [name |-> <<"N", "o", "d", "e">>,
     command |-> <<"N", "o", "d", "e", " ", "a", "p", "p", ".", "j", "s">>]>>

Pids == 1..Len(Processes)

\* The name and command getPortProcess reports when `ps` / `tasklist` fails.
Unknown == <<"U", "n", "k", "n", "o", "w", "n">>


\* ------------------------------------------------------ continuations
\* One invocation of a session's resolve or reject callable.
ResolveCall(feedback) ==
  [fn |-> "resolve", code |-> "", secs |-> 0, arg |-> feedback]

RejectCall(code, secs) ==
  [fn |-> "reject", code |-> code, secs |-> secs, arg |-> <<>>]

PendingPromise == [state |-> "pending", code |-> "", secs |-> 0, value |-> <<>>]

NoResult == [status |-> "none", content |-> <<>>, code |-> "", secs |-> 0]

\* Mutant of Settle: every call settles the promise anew.
SettleLastCallWins(promise, call) ==
  IF call.fn = "resolve"
  THEN [state |-> "fulfilled", code |-> "", secs |-> 0, value |-> call.arg]
  ELSE [state |-> "rejected", code |-> call.code, secs |-> call.secs,
        value |-> <<>>]

\* new Promise((resolve, reject) => ...): the first call of either callable
\* settles the promise, later calls have no effect on it.
Settle(promise, call) ==
  IF promise.state # "pending" THEN promise
  ELSE IF call.fn = "resolve"
       THEN [state |-> "fulfilled", code |-> "", secs |-> 0, value |-> call.arg]
       ELSE [state |-> "rejected", code |-> call.code, secs |-> call.secs,
             value |-> <<>>]

\* MCPServer.collectFeedback: the value the tool call returns once the
\* promise of WebServer.collectFeedback has settled.  The text of a failure
\* is the MCPError's message, modelled by its code and the seconds it names.
ToolResult(promise) ==
  IF promise.state = "fulfilled"
  THEN [status |-> "ok", content |-> promise.value, code |-> "", secs |-> 0]
  ELSE [status |-> "error", content |-> <<>>, code |-> promise.code,
        secs |-> promise.secs]

\* Calling session.resolve / session.reject of object o: the call is
\* recorded, the promise settles if it was pending, and the awaiting
\* MCPServer.collectFeedback resumes in the same macrotask.
Invoke(o, call) ==
  LET p == Settle(o.promise, call)
  IN [o EXCEPT !.invs = Append(@, call),
               !.promise = p,
               !.result = ToolResult(p)]

\* ------------------------------------------------------ SessionStorage
\* Date.now() - session.startTime of object o
Elapsed(o) == elapsed[o]

\* The code compares the elapsed time with session.timeout and with the
\* timer's delay only; past this value no comparison changes any more.
ElapsedCap(o) == objs[o].timeout + TickMs

\* The start time of an object is read while the object is in the Map
\* (getSession, cleanupExpiredSessions) and while its timer is pending; the
\* model keeps the elapsed time of these objects, and of no other.
OnClock(os, t) ==
  {o \in 1..Len(os) : os[o].timer = "armed" \/ \E id \in DOMAIN t : t[id] = o}

\* The elapsed times after a step that leaves objects os and table t and
\* takes no time: an object created by the step starts at 0.
Clock(os, t) ==
  [o \in OnClock(os, t) |-> IF o \in DOMAIN elapsed THEN elapsed[o] ELSE 0]

Expired(o) == Elapsed(o) > objs[o].timeout

EmptyTable == [i \in {} |-> 0]

Remove(t, id) == [i \in DOMAIN t \ {id} |-> t[i]]

\* SessionStorage.createSession
createSession(t, id, o) == (id :> o) @@ t

\* SessionStorage.deleteSession
deleteSession(t, id) == Remove(t, id)

\* getSession without the test of the elapsed time.
getSessionNoExpiry(id) ==
  IF id \in DOMAIN table THEN table[id] ELSE 0

\* SessionStorage.getSession: the object returned (0 for undefined) ...
getSession(id) ==
  IF id \in DOMAIN table /\ ~Expired(table[id]) THEN table[id] ELSE 0

\* getSession leaving an expired session in the Map.
getSessionTableKept(id) == table

\* ... and the table it leaves behind (lazy expiry on read).
getSessionTable(id) ==
  IF id \in DOMAIN table /\ Expired(table[id])
  THEN deleteSession(table, id) ELSE table

\* WebServer.generateSessionId: `feedback_${Date.now()}_${random}`.  An id
\* is modelled by a number that stands for the pair of millisecond and
\* random suffix.
generateSessionId(r) == r

\* The outcomes of the random suffix that matter: the id is one no session
\* has, or the id of a session created in this same millisecond.
Rands ==
  {Len(objs) + 1} \cup {objs[o].id : o \in {q \in DOMAIN elapsed : Elapsed(q) = 0}}

\* The work summary of the next session: the k-th session carries summary k.
NextSummary == Len(objs) + 1

NewObject(id, ws, secs, hasCont) ==
  [id |-> id, workSummary |-> ws, fb |-> Len(objs) + 1,
   timeout |-> secs * MsPerSecond, secs |-> secs, cont |-> hasCont,
   timer |-> IF hasCont THEN "armed" ELSE "none",
   invs |-> <<>>, promise |-> PendingPromise, result |-> NoResult]

\* ------------------------------------------------------ port negotiation
PORT_RANGE_START == 5000
PORT_RANGE_END == 5019
MAX_RETRIES == 20
RANDOM_PORT_MIN == 1024      \* Math.floor(Math.random() * (65535 - 1024) + 1024)
RANDOM_PORT_MAX == 65534
PollMs == 200                \* waitForPortRelease sleeps 200 ms between polls
CleanupWaitMs == 5000        \* cleanupPort: waitForPortRelease(port, 5000)

TargetPorts == {3000, 5000}          \* config.webPort, the port argument
RandomPorts == {6000, 7000}          \* the outcomes of Math.random that are tried
FreeSets == SUBSET {5003, 6000}
WaitTimeouts == {0, 400, 3000}       \* timeoutMs of waitForPortRelease

NoInfo == [pid |-> 0, name |-> <<>>, command |-> <<>>]   \* null

Ok(v) == [status |-> "ok", value |-> v, code |-> ""]
Err(c) == [status |-> "error", value |-> 0, code |-> c]
NoRet == [status |-> "none", value |-> 0, code |-> ""]

ScanStart == [port |-> PORT_RANGE_START, i |-> 0]

NoTrail ==
  [kills |-> <<>>, verdicts |-> {}, probes |-> 0, lastProbe |-> [port |-> 0, ok |-> FALSE],
   consulted |-> FALSE, poll |-> [bind |-> FALSE, absent |-> FALSE],
   polled |-> FALSE, slept |-> FALSE, first |-> NoRet, listened |-> 0,
   strayed |-> FALSE, killed |-> FALSE, rechecked |-> FALSE,
   release |-> [found |-> "none", graceful |-> "none", forced |-> "none",
                verify |-> "none", out |-> NoRet]]

NoCall ==
  [fn |-> "none", port |-> 0, kill |-> FALSE, timeoutMs |-> 0,
   forcePort |-> FALSE, cleanup |-> FALSE, frozen |-> FALSE]

\* The configuration is not under consideration.
NoConfig ==
  [webPort |-> 0, dialogTimeout |-> 0, maxFileSize |-> 0, apiBaseUrl |-> <<>>,
   logLevel |-> "", result |-> "none"]

\* No isPortAvailable is under way.
NoProbe ==
  [pc |-> "idle", port |-> 0, handle |-> "none", pending |-> {}, timer |-> FALSE,
   resolved |-> FALSE, closing |-> "none", result |-> "none",
   events |-> <<>>, resolves |-> 0]

\* No port operation is under way.
PortIdle ==
  /\ op = NoCall
  /\ stack = <<>>
  /\ ret = NoRet
  /\ occ = 0
  /\ listening = FALSE
  /\ free = {}
  /\ info = NoInfo
  /\ waited = 0
  /\ scan = ScanStart
  /\ webPort = 0
  /\ trail = NoTrail
  /\ probe = NoProbe
  /\ config = NoConfig


Alive == proc # "exited"

\* The latest step emitted nothing in answer to a submit_feedback event.
NoEmit == [ev |-> "none", sid |-> NoSuchId, obj |-> 0, n |-> 0]

TypeOK ==
  /\ DOMAIN elapsed = OnClock(objs, table)
  /\ \A o \in DOMAIN elapsed : Elapsed(o) \in 0..ElapsedCap(o)
  /\ dialogTimeout \in DialogTimeouts
  /\ Len(objs) + nsub <= MaxEvents
  /\ Len(arrays) = Len(objs)
  /\ \A id \in DOMAIN table : table[id] \in 1..Len(objs)
  /\ nsub \in 0..MaxEvents
  /\ Cardinality(inflight) <= nsub
  /\ proc \in {"constructed", "running", "exited"}
  /\ stopPc \in {"idle", "closing", "releasing"}

Init ==
  /\ dialogTimeout \in DialogTimeouts
  /\ objs = <<>>
  /\ elapsed = EmptyTable
  /\ arrays = <<>>
  /\ table = EmptyTable
  /\ inflight = {}
  /\ nsub = 0
  /\ lastEmit = NoEmit
  /\ cleanupArmed = TRUE
  /\ webRunning = FALSE
  /\ mcpRunning = FALSE
  /\ transportOpen = FALSE
  /\ stopPc = "idle"
  /\ proc = "constructed"
  /\ PortIdle

\* The clock: Date.now() advances.
Advance(o) ==
  IF Elapsed(o) + TickMs > ElapsedCap(o) THEN ElapsedCap(o) ELSE Elapsed(o) + TickMs

Tick ==
  /\ Alive
  /\ elapsed' = [o \in DOMAIN elapsed |-> Advance(o)]
  /\ lastEmit' = NoEmit
  /\ UNCHANGED <<dialogTimeout, objs, arrays, table, inflight, nsub, lifecycleVars>>
  /\ UNCHANGED portVars

\* The process ends (process.exit, or an uncaught exception): nothing of it
\* is left.
ExitWith(e) ==
  /\ proc' = "exited"
  /\ objs' = <<>>
  /\ elapsed' = EmptyTable
  /\ arrays' = <<>>
  /\ table' = EmptyTable
  /\ inflight' = {}
  /\ nsub' = 0
  /\ lastEmit' = e
  /\ cleanupArmed' = FALSE
  /\ webRunning' = FALSE
  /\ mcpRunning' = FALSE
  /\ transportOpen' = FALSE
  /\ stopPc' = "idle"
  /\ UNCHANGED dialogTimeout

\* ------------------------------------------------------ session creation
\* WebServer.collectFeedback: the session object, its Map entry and its
\* timeout timer.  The catch of openFeedbackPage cannot run: openFeedbackPage
\* swallows every error itself.
collectFeedback(ws, r) ==
  LET id == generateSessionId(r)
      o == NewObject(id, ws, dialogTimeout, TRUE)
  IN /\ objs' = Append(objs, o)
     /\ arrays' = Append(arrays, <<>>)
     /\ table' = createSession(table, id, Len(objs) + 1)
     /\ elapsed' = Clock(objs', table')

\* How WebServer.start can end: the server listens; the port negotiation
\* throws (rethrown as WEB_SERVER_START_ERROR); or server.listen finds the
\* negotiated port taken, the server emits 'error', for which there is no
\* listener, and the uncaught exception ends the process.
StartOutcomes == {"listening", "no_port", "listen_failed"}

\* The interactive-feedback tool (MCPServer.collectFeedback): start the web
\* server if it is not running, then collect.  An error thrown by start is
\* caught and returned as a result with isError set.
ToolCall(ws, r, start) ==
  /\ proc = "running"
  /\ transportOpen
  /\ Len(objs) + nsub < MaxEvents
  /\ IF webRunning \/ start = "listening"
     THEN /\ webRunning' = TRUE
          /\ collectFeedback(ws, r)
          /\ lastEmit' = NoEmit
          /\ UNCHANGED <<dialogTimeout, inflight, nsub, cleanupArmed,
                         mcpRunning, transportOpen, stopPc, proc>>
     ELSE IF start = "no_port"
          THEN /\ lastEmit' = [NoEmit EXCEPT !.ev = "tool_error"]
               /\ UNCHANGED <<webRunning, sessionVars>>
               /\ UNCHANGED <<dialogTimeout, inflight, nsub, cleanupArmed,
                              mcpRunning, transportOpen, stopPc, proc>>
          ELSE ExitWith([NoEmit EXCEPT !.ev = "uncaught_exception"])
  /\ UNCHANGED portVars

\* POST /api/test-session: a session without continuation and without timer.
TestSession(ws, secs, r) ==
  /\ proc = "running"
  /\ webRunning
  /\ stopPc = "idle"
  /\ Len(objs) + nsub < MaxEvents
  /\ LET id == generateSessionId(r)
         o == NewObject(id, ws, secs, FALSE)
     IN /\ objs' = Append(objs, o)
        /\ arrays' = Append(arrays, <<>>)
        /\ table' = createSession(table, id, Len(objs) + 1)
        /\ elapsed' = Clock(objs', table')
  /\ lastEmit' = NoEmit
  /\ UNCHANGED <<dialogTimeout, inflight, nsub, lifecycleVars>>
  /\ UNCHANGED portVars

\* ------------------------------------------------------ expiry
\* `Feedback collection timeout after ${timeoutSeconds} seconds`
FeedbackTimeoutSeconds(o) == o.secs

\* The timer armed by WebServer.collectFeedback for object c.
TimerFire(c) ==
  /\ Alive
  /\ c \in 1..Len(objs)
  /\ objs[c].timer = "armed"
  /\ Elapsed(c) >= objs[c].secs * MsPerSecond
  /\ table' = deleteSession(table, objs[c].id)
  /\ objs' = [objs EXCEPT ![c] =
       [Invoke(@, RejectCall("FEEDBACK_TIMEOUT", FeedbackTimeoutSeconds(objs[c])))
          EXCEPT !.timer = "fired"]]
  /\ elapsed' = Clock(objs', table')
  /\ lastEmit' = NoEmit
  /\ UNCHANGED <<dialogTimeout, arrays, inflight, nsub, lifecycleVars>>
  /\ UNCHANGED portVars

\* Mutant of SessionTimeoutSeconds: the message names milliseconds.
SessionTimeoutMillis(o) == o.timeout

\* `Session timeout after ${session.timeout / 1000} seconds`
SessionTimeoutSeconds(o) == o.timeout \div MsPerSecond

\* SessionStorage.cleanupExpiredSessions, run by the cleanup interval.
SweepVictims == {id \in DOMAIN table : Expired(table[id])}

SweepObjs(victims) ==
  [o \in 1..Len(objs) |->
     IF (\E id \in victims : table[id] = o) /\ objs[o].cont
     THEN Invoke(objs[o], RejectCall("SESSION_TIMEOUT", SessionTimeoutSeconds(objs[o])))
     ELSE objs[o]]

\* cleanupExpiredSessions counting every session it visits.
cleanedCountVisited == Cardinality(DOMAIN table)

\* The number cleanupExpiredSessions returns: cleanedCount++ per deletion.
cleanedCount == Cardinality(SweepVictims)

cleanupExpiredSessions ==
  /\ Alive
  /\ cleanupArmed
  /\ objs' = SweepObjs(SweepVictims)
  /\ table' = [id \in DOMAIN table \ SweepVictims |-> table[id]]
  /\ elapsed' = Clock(objs', table')
  /\ lastEmit' = NoEmit
  /\ UNCHANGED <<dialogTimeout, arrays, inflight, nsub, lifecycleVars>>
  /\ UNCHANGED portVars

\* Mutant of ClearObjs: the sessions are dropped without being notified.
ClearObjsSilent == objs

\* SessionStorage.clear
ClearObjs ==
  [o \in 1..Len(objs) |->
     IF (\E id \in DOMAIN table : table[id] = o) /\ objs[o].cont
     THEN Invoke(objs[o], RejectCall("SERVER_SHUTDOWN", 0))
     ELSE objs[o]]

\* stop going on to close the server with the sessions still in the Map.
ClearTableSkipped == table

ClearTable == EmptyTable

\* ------------------------------------------------------ respondent events
\* An answer to submit_feedback.  feedback_submitted is annotated with the
\* session id the event named, the session object the handler held and the
\* number of the submission; a feedback_error carries its message only.
Emit(ev, sid, o, n) == [ev |-> ev, sid |-> sid, obj |-> o, n |-> n]

\* The tail of handleFeedbackSubmission, from session.feedback.push on:
\* object o is the session the handler fetched, t the table as it is now.
AcceptArrays(o, p) == [arrays EXCEPT ![objs[o].fb] = Append(@, p)]

\* updateSession(sid, {feedback: session.feedback}): Object.assign on the
\* object the Map holds for sid, which need not be o.
AcceptUpdate(o, sid, t) ==
  IF sid \in DOMAIN t THEN [objs EXCEPT ![t[sid]].fb = objs[o].fb] ELSE objs

\* Mutant of AcceptObjs: resolve is handed the responses as they were
\* before the push.
AcceptObjsStale(o, sid, p, t) ==
  LET os == AcceptUpdate(o, sid, t)
  IN IF objs[o].cont
     THEN [os EXCEPT ![o] = Invoke(@, ResolveCall(arrays[objs[o].fb]))]
     ELSE os

AcceptObjs(o, sid, p, t) ==
  LET os == AcceptUpdate(o, sid, t)
  IN IF objs[o].cont
     THEN [os EXCEPT ![o] = Invoke(@, ResolveCall(AcceptArrays(o, p)[objs[o].fb]))]
     ELSE os

AcceptTable(o, sid, t) ==
  IF objs[o].cont THEN deleteSession(t, sid) ELSE t

Accept(o, sid, p, t) ==
  /\ arrays' = AcceptArrays(o, p)
  /\ objs' = AcceptObjs(o, sid, p, t)
  /\ table' = AcceptTable(o, sid, t)
  /\ lastEmit' = Emit("feedback_submitted", sid, o, p)

SessionIds == {objs[o].id : o \in 1..Len(objs)} \cup {NoSuchId}

\* handleFeedbackSubmission answering both failures with the same error.
RejectionOneError(o, text, imgs) ==
  IF o = 0 \/ (~text /\ imgs = 0) THEN "session_expired" ELSE "none"

\* The checks at the head of handleFeedbackSubmission: the feedback_error
\* the submission is answered with, "none" when it passes.
Rejection(o, text, imgs) ==
  IF o = 0 THEN "session_expired"
  ELSE IF ~text /\ imgs = 0 THEN "empty_submission"
  ELSE "none"

\* socket.on('submit_feedback') -> handleFeedbackSubmission, up to the await
\* of processImages (or to the end when the submission carries no image).
\* Only a submission that passes validation gets a number.
submit_feedback(sid, text, imgs) ==
  /\ proc = "running"
  /\ webRunning
  /\ stopPc = "idle"
  /\ Len(objs) + nsub < MaxEvents
  /\ LET o == getSession(sid)
         t == getSessionTable(sid)
         p == nsub + 1
         rejection == Rejection(o, text, imgs)
     IN IF rejection # "none"
        THEN /\ table' = t
             /\ lastEmit' = Emit(rejection, NoSuchId, 0, 0)
             /\ UNCHANGED <<objs, arrays, inflight, nsub>>
        ELSE IF imgs > 0
        THEN /\ table' = t
             /\ inflight' = inflight \cup {[obj |-> o, sid |-> sid, p |-> p]}
             /\ nsub' = p
             /\ lastEmit' = NoEmit
             /\ UNCHANGED <<objs, arrays>>
        ELSE /\ Accept(o, sid, p, t)
             /\ nsub' = p
             /\ UNCHANGED inflight
  /\ elapsed' = Clock(objs', table')
  /\ UNCHANGED <<dialogTimeout, lifecycleVars>>
  /\ UNCHANGED portVars

\* processImages has settled: the suspended handler f resumes.
ImagesProcessed(f, ok) ==
  /\ Alive
  /\ f \in inflight
  /\ inflight' = inflight \ {f}
  /\ IF ok
     THEN Accept(f.obj, f.sid, f.p, table)
     ELSE /\ lastEmit' = Emit("image_processing_failed", NoSuchId, 0, 0)
          /\ UNCHANGED <<objs, arrays, table>>
  /\ elapsed' = Clock(objs', table')
  /\ UNCHANGED <<dialogTimeout, nsub, lifecycleVars>>
  /\ UNCHANGED portVars

\* socket.on('get_work_summary')
get_work_summary(sid) ==
  /\ proc = "running"
  /\ webRunning
  /\ stopPc = "idle"
  /\ table' = getSessionTable(sid)
  /\ elapsed' = Clock(objs, table')
  /\ lastEmit' = NoEmit
  /\ UNCHANGED <<dialogTimeout, objs, arrays, inflight, nsub, lifecycleVars>>
  /\ UNCHANGED portVars

\* getAllSessions(): a copy of the Map, expired entries included.
getAllSessions == DOMAIN table

\* The loop of request_session keeps the entry with the greatest startTime,
\* the first of them in Map order when several were created in the same
\* millisecond.  Sessions created within one tick of the model's clock have
\* start times in the order of their creation, or equal ones.
LatestSessions(ids) ==
  {id \in ids : \A other \in ids : Elapsed(table[id]) <= Elapsed(table[other])}

\* socket.on('request_session')
request_session ==
  /\ proc = "running"
  /\ webRunning
  /\ stopPc = "idle"
  /\ IF getAllSessions = {}
     THEN lastEmit' = Emit("no_active_session", NoSuchId, 0, 0)
     ELSE \E id \in LatestSessions(getAllSessions) :
            lastEmit' = Emit("session_assigned", id, table[id], objs[table[id]].workSummary)
  /\ UNCHANGED <<dialogTimeout, sessionVars, inflight, nsub, lifecycleVars>>
  /\ UNCHANGED portVars

\* ------------------------------------------------------ process lifecycle
\* process.exit
Exit == ExitWith(NoEmit)

\* cli.ts startMCPServer: server.start() or server.startWebOnly(); a failed
\* start ends in process.exit(1).
Start(mode, ok) ==
  /\ proc = "constructed"
  /\ IF ok
     THEN /\ webRunning' = TRUE
          /\ mcpRunning' = TRUE
          /\ transportOpen' = (mode = "mcp")
          /\ proc' = "running"
          /\ lastEmit' = NoEmit
          /\ UNCHANGED <<dialogTimeout, sessionVars, inflight, nsub,
                         cleanupArmed, stopPc>>
     ELSE Exit
  /\ UNCHANGED portVars

\* SIGINT / SIGTERM: await server.stop(); process.exit(0).  MCPServer.stop
\* returns at once when isRunning is false; otherwise WebServer.stop clears
\* the sessions, stops the cleanup timer and awaits server.close.
Signal ==
  /\ proc = "running"
  /\ stopPc = "idle"
  /\ IF ~mcpRunning
     THEN Exit
     ELSE /\ objs' = ClearObjs
          /\ table' = ClearTable
          /\ elapsed' = Clock(objs', table')
          /\ cleanupArmed' = FALSE
          /\ stopPc' = "closing"
          /\ lastEmit' = NoEmit
          /\ UNCHANGED <<dialogTimeout, arrays, inflight, nsub,
                         webRunning, mcpRunning, transportOpen, proc>>
  /\ UNCHANGED portVars

\* server.close called back without error; stop goes on to waitForPortRelease.
CloseDone ==
  /\ Alive
  /\ stopPc = "closing"
  /\ webRunning' = FALSE
  /\ stopPc' = "releasing"
  /\ lastEmit' = NoEmit
  /\ UNCHANGED <<dialogTimeout, sessionVars, inflight, nsub,
                 cleanupArmed, mcpRunning, transportOpen, proc>>
  /\ UNCHANGED portVars

\* server.close failed or took more than 5 s: stop throws, and the signal
\* handler's rejection ends the process.
CloseFail ==
  /\ Alive
  /\ stopPc = "closing"
  /\ Exit
  /\ UNCHANGED portVars

\* waitForPortRelease returned or timed out; mcpServer.close() closes the
\* transport, whose onclose handler clears isRunning; process.exit(0).
StopDone ==
  /\ Alive
  /\ stopPc = "releasing"
  /\ Exit
  /\ UNCHANGED portVars

Next ==
  \/ Tick
  \/ \E r \in Rands, start \in StartOutcomes : ToolCall(NextSummary, r, start)
  \/ \E secs \in TestTimeouts, r \in Rands : TestSession(NextSummary, secs, r)
  \/ \E c \in 1..MaxEvents : TimerFire(c)
  \/ cleanupExpiredSessions
  \/ \E sid \in SessionIds, text \in BOOLEAN, imgs \in 0..1 : submit_feedback(sid, text, imgs)
  \/ \E f \in inflight, ok \in BOOLEAN : ImagesProcessed(f, ok)
  \/ \E sid \in SessionIds : get_work_summary(sid)
  \/ \E mode \in {"mcp", "web"}, ok \in BOOLEAN : Start(mode, ok)
  \/ Signal
  \/ CloseDone
  \/ CloseFail
  \/ StopDone

Spec == Init /\ [][Next]_vars

\* Fairness of the event loop: the clock advances, due timers and the
\* cleanup interval run, awaited operations complete.
FairSpec ==
  /\ Spec
  /\ WF_vars(Tick)
  /\ \A c \in 1..MaxEvents : WF_vars(TimerFire(c))
  /\ WF_vars(cleanupExpiredSessions)
  /\ WF_vars(\E f \in inflight, ok \in BOOLEAN : ImagesProcessed(f, ok))
  /\ WF_vars(CloseDone \/ CloseFail)
  /\ WF_vars(StopDone)

\* ------------------------------------------------------ port operations
Top == stack[Len(stack)]
Front(s) == SubSeq(s, 1, Len(s) - 1)

\* createServer().listen(port) succeeds within the 1000 ms the probe allows.
\* The target port is held by its listening occupant; the other ports are
\* bindable when they are in `free`.
Bindable(port) ==
  IF port = op.port THEN ~(occ # 0 /\ listening) ELSE port \in free

\* isPortAvailable(port): the outcome of the bind probe.
isPortAvailable(port) == Bindable(port)

\* getPortProcess(port) on the target port: null when nothing uses the port
\* or the query fails, the occupant with its details, or the occupant with
\* 'Unknown' details when `ps` fails.
getPortProcess ==
  IF occ = 0 THEN {NoInfo}
  ELSE {NoInfo,
        [pid |-> occ, name |-> Processes[occ].name, command |-> Processes[occ].command],
        [pid |-> occ, name |-> Unknown, command |-> Unknown]}

\* Bookkeeping of a bind probe.
Probed(tr, port, ok) ==
  [tr EXCEPT !.lastProbe = [port |-> port, ok |-> ok],
             !.strayed = @ \/ port # op.port]

\* Bookkeeping of isSafeToKill(processInfo) and of killProcess(pid, force).
Judged(tr, by, processInfo, safe) ==
  [tr EXCEPT !.verdicts = @ \cup {[by |-> by, pid |-> processInfo.pid,
                                    name |-> processInfo.name,
                                    command |-> processInfo.command, safe |-> safe]}]
Killing(tr, by, pid, force) ==
  [tr EXCEPT !.kills = Append(@, [by |-> by, pid |-> pid, force |-> force])]

\* findAvailablePort going straight to the range scan.
findEntrySkipPreferred == "find:range"

\* Where findAvailablePort(preferredPort) starts: `if (preferredPort)`.
findEntry == IF op.port # 0 THEN "find:preferred" ELSE "find:range"

\* WebServer.start choosing its port strategy with forcePort ignored.
negotiateEntryNoForce(forcePort) == findEntry

\* WebServer.start: forcePort(webPort, kill) in forced-port mode, otherwise
\* findAvailablePort(webPort).
negotiateEntry(forcePort) ==
  IF forcePort THEN "forcePort:check" ELSE findEntry

\* cleanupPort letting the error of waitForPortRelease through.
cleanupAfterWaitRethrow(out) == out

\* cleanupPort after waitForPortRelease(port, 5000): try { ... } catch { log }.
cleanupAfterWait(out) == Ok(0)

\* An awaited call returned or threw `out`: the callers on `stk` continue.
RECURSIVE Resume(_, _)
Resume(stk, out) ==
  IF stk = <<>>
  THEN [stack |-> <<>>, ret |-> out, port |-> webPort]
  ELSE
    LET top == stk[Len(stk)]
        rest == Front(stk)
    IN CASE top = "forcePort:release" ->
              IF out.status = "error" THEN Resume(rest, out)
              ELSE IF out.value = 0
                   THEN Resume(rest, Err("PORT_FORCE_RELEASE_FAILED"))
                   ELSE [stack |-> Append(rest, "forcePort:final"), ret |-> NoRet,
                         port |-> webPort]
         [] top = "cleanup:wait" -> Resume(rest, cleanupAfterWait(out))
         [] top = "start:cleanup" ->
              [stack |-> rest \o <<"start:negotiate", negotiateEntry(op.forcePort)>>,
               ret |-> NoRet, port |-> webPort]
         [] top = "start:negotiate" ->
              IF out.status = "error"
              THEN Resume(rest, Err("WEB_SERVER_START_ERROR"))
              ELSE [stack |-> Append(rest, "start:listen"), ret |-> NoRet,
                    port |-> out.value]
         [] OTHER -> Resume(rest, out)

Return(out, tr) ==
  LET r == Resume(Front(stack), out)
  IN /\ stack' = r.stack
     /\ ret' = r.ret
     /\ webPort' = r.port
     /\ trail' = tr

Goto(label, tr) ==
  /\ stack' = Append(Front(stack), label)
  /\ trail' = tr
  /\ UNCHANGED <<ret, webPort>>

Push(label, entry, tr) ==
  /\ stack' = Front(stack) \o <<label, entry>>
  /\ trail' = tr
  /\ UNCHANGED <<ret, webPort>>

Running(label) == stack # <<>> /\ Top = label

\* ---- the environment of the target port
\* A process binds the target port.
EnvBind(p) ==
  /\ op.fn # "none" /\ ~op.frozen
  /\ occ = 0
  /\ trail.listened # op.port
  /\ stack # <<>>
  /\ occ' = p /\ listening' = TRUE
  /\ UNCHANGED <<config, probe, op, stack, ret, free, info, waited, scan, webPort, trail>>
  /\ UNCHANGED brokerVars

\* The occupant closes its listener; its sockets still show in lsof/netstat.
EnvUnbind ==
  /\ op.fn # "none" /\ ~op.frozen
  /\ occ # 0 /\ listening
  /\ stack # <<>>
  /\ listening' = FALSE
  /\ UNCHANGED <<config, probe, op, stack, ret, occ, free, info, waited, scan, webPort, trail>>
  /\ UNCHANGED brokerVars

\* The occupant exits.
EnvExit ==
  /\ op.fn # "none" /\ ~op.frozen
  /\ occ # 0
  /\ stack # <<>>
  /\ occ' = 0 /\ listening' = FALSE
  /\ UNCHANGED <<config, probe, op, stack, ret, free, info, waited, scan, webPort, trail>>
  /\ UNCHANGED brokerVars

\* ---- ProcessManager.forceReleasePort
\* The security check of forceReleasePort and cleanupPort.
MayKillWhenAllowed(processInfo, allowKill) == isSafeToKill(processInfo) \/ allowKill
MayKill(processInfo, allowKill) == isSafeToKill(processInfo)

\* forceReleasePort answering a refusal with `false` instead of throwing.
RefusedAsFailure == Ok(0)

\* throw new MCPError(..., 'UNSAFE_PROCESS_KILL', ...)
Refused == Err("UNSAFE_PROCESS_KILL")

\* forceReleasePort taking the kill's word for the release of the port.
releaseResultTrusting(stillOccupied) == Ok(1)

\* `if (!stillOccupied) return true; else return false;`
releaseResult(stillOccupied) == Ok(IF stillOccupied = NoInfo THEN 1 ELSE 0)

\* getPortProcess returned: nothing found, refusal, or the graceful kill.
releaseLookup ==
  /\ Running("release:lookup")
  /\ \E pi \in getPortProcess :
       IF pi = NoInfo
       THEN Return(Ok(1), [trail EXCEPT !.release.found = "free", !.release.out = Ok(1)])
            /\ info' = NoInfo
       ELSE LET tr == [Judged(trail, "forceReleasePort", pi, isSafeToKill(pi))
                         EXCEPT !.release.found = "occupied"]
            IN IF ~MayKill(pi, op.kill)
               THEN Return(Refused, [tr EXCEPT !.release.out = Refused]) /\ info' = NoInfo
               ELSE Goto("release:term", Killing(tr, "forceReleasePort", pi.pid, FALSE)) /\ info' = pi
  /\ UNCHANGED <<config, probe, op, occ, listening, free, waited, scan>>
  /\ UNCHANGED brokerVars

\* killProcess(pid, false) returned; on failure the forced kill follows
\* after 2 seconds.
releaseTerm ==
  /\ Running("release:term")
  /\ \E success \in BOOLEAN :
       IF success
       THEN Goto("release:verify",
                 [trail EXCEPT !.killed = TRUE, !.release.graceful = "ok"])
       ELSE Goto("release:pause", [trail EXCEPT !.release.graceful = "failed"])
  /\ UNCHANGED <<config, probe, op, occ, listening, free, info, waited, scan>>
  /\ UNCHANGED brokerVars

releasePause ==
  /\ Running("release:pause")
  /\ Goto("release:kill", Killing(trail, "forceReleasePort", info.pid, TRUE))
  /\ UNCHANGED <<config, probe, op, occ, listening, free, info, waited, scan>>
  /\ UNCHANGED brokerVars

\* killProcess(pid, true) returned.
releaseKill ==
  /\ Running("release:kill")
  /\ \E success \in BOOLEAN :
       IF success
       THEN Goto("release:verify",
                 [trail EXCEPT !.killed = TRUE, !.release.forced = "ok"])
            /\ info' = info
       ELSE Return(Ok(0), [trail EXCEPT !.release.forced = "failed",
                                        !.release.out = Ok(0)])
            /\ info' = NoInfo
  /\ UNCHANGED <<config, probe, op, occ, listening, free, waited, scan>>
  /\ UNCHANGED brokerVars

\* One second later: stillOccupied = getPortProcess(port).
releaseVerify ==
  /\ Running("release:verify")
  /\ \E stillOccupied \in getPortProcess :
       Return(releaseResult(stillOccupied),
              [trail EXCEPT !.release.verify =
                              IF stillOccupied = NoInfo THEN "free" ELSE "occupied",
                            !.release.out = releaseResult(stillOccupied)])
  /\ info' = NoInfo
  /\ UNCHANGED <<config, probe, op, occ, listening, free, waited, scan>>
  /\ UNCHANGED brokerVars

\* ---- PortManager.forcePort
\* forcePort found the port occupied, with the killProcess flag ignored.
forcePortOccupiedAlwaysKill(killProcess, tr) ==
  Push("forcePort:release", "release:lookup", tr)

\* forcePort found the port occupied.
forcePortOccupied(killProcess, tr) ==
  IF ~killProcess
  THEN Return(Err("PORT_OCCUPIED"), tr)
  ELSE Push("forcePort:release", "release:lookup", tr)

forcePortCheck ==
  /\ Running("forcePort:check")
  /\ LET available == isPortAvailable(op.port)
         tr == Probed(trail, op.port, available)
     IN IF available THEN Return(Ok(op.port), tr)
        ELSE forcePortOccupied(op.kill, tr)
  /\ UNCHANGED <<config, probe, op, occ, listening, free, info, waited, scan>>
  /\ UNCHANGED brokerVars

forcePortAfterRelease(finalCheck) ==
  IF ~finalCheck THEN Err("PORT_STILL_OCCUPIED") ELSE Ok(op.port)

forcePortFinal ==
  /\ Running("forcePort:final")
  /\ LET finalCheck == isPortAvailable(op.port)
     IN Return(forcePortAfterRelease(finalCheck),
               [Probed(trail, op.port, finalCheck) EXCEPT !.rechecked = TRUE])
  /\ UNCHANGED <<config, probe, op, occ, listening, free, info, waited, scan>>
  /\ UNCHANGED brokerVars

\* ---- PortManager.waitForPortRelease
\* The timeoutMs of the running waitForPortRelease: 5000 when cleanupPort
\* called it, the caller's argument otherwise.
WaitTimeout ==
  IF Len(stack) >= 2 /\ stack[Len(stack) - 1] = "cleanup:wait"
  THEN CleanupWaitMs
  ELSE op.timeoutMs

\* isPortTrulyAvailable without the process detection.
isPortTrulyAvailableBasic(basicCheck, processInfo) == basicCheck

\* isPortTrulyAvailable: the bind probe passed and no process uses the port.
isPortTrulyAvailable(basicCheck, processInfo) ==
  basicCheck /\ processInfo = NoInfo

\* The loop test with the sleeps not counted.
WithinTimeoutNoClock(elapsedMs, timeoutMs) == 0 < timeoutMs

\* while (Date.now() - startTime < timeoutMs)
WithinTimeout(elapsedMs, timeoutMs) == elapsedMs < timeoutMs

\* The loop test, then the bind probe of isPortTrulyAvailable.
waitPoll ==
  /\ Running("wait:poll")
  /\ IF ~WithinTimeout(waited, WaitTimeout)
     THEN Return(Err("PORT_RELEASE_TIMEOUT"), trail) /\ waited' = 0
     ELSE LET basicCheck == isPortAvailable(op.port)
              tr == [Probed(trail, op.port, basicCheck) EXCEPT
                       !.polled = TRUE,
                       !.poll = [bind |-> basicCheck, absent |-> FALSE]]
          IN /\ IF ~isPortTrulyAvailable(basicCheck, NoInfo)
                THEN Goto("wait:sleep", tr)
                ELSE Goto("wait:lookup", tr)
             /\ waited' = waited
  /\ UNCHANGED <<config, probe, op, occ, listening, free, info, scan>>
  /\ UNCHANGED brokerVars

\* The process detection of isPortTrulyAvailable.
waitLookup ==
  /\ Running("wait:lookup")
  /\ \E processInfo \in getPortProcess :
       LET tr == [trail EXCEPT !.poll.absent = (processInfo = NoInfo)]
       IN IF isPortTrulyAvailable(TRUE, processInfo)
          THEN Return(Ok(0), tr) /\ waited' = 0
          ELSE Goto("wait:sleep", tr) /\ waited' = waited
  /\ UNCHANGED <<config, probe, op, occ, listening, free, info, scan>>
  /\ UNCHANGED brokerVars

\* setTimeout(resolve, 200) fired.
waitSleep ==
  /\ Running("wait:sleep")
  /\ waited' = IF waited < WaitTimeout THEN waited + PollMs ELSE waited
  /\ Goto("wait:poll", [trail EXCEPT !.slept = TRUE])
  /\ UNCHANGED <<config, probe, op, occ, listening, free, info, scan>>
  /\ UNCHANGED brokerVars

\* ---- PortManager.cleanupPort
cleanupLookup ==
  /\ Running("cleanup:lookup")
  /\ \E processInfo \in getPortProcess :
       IF processInfo = NoInfo
       THEN Return(Ok(0), trail) /\ info' = NoInfo
       ELSE LET tr == Judged(trail, "cleanupPort", processInfo, isSafeToKill(processInfo))
            IN IF ~MayKill(processInfo, op.kill)
               THEN Return(Ok(0), tr) /\ info' = NoInfo
               ELSE /\ Goto("cleanup:term", Killing(tr, "cleanupPort", processInfo.pid, FALSE))
                    /\ info' = processInfo
  /\ UNCHANGED <<config, probe, op, occ, listening, free, waited, scan>>
  /\ UNCHANGED brokerVars

\* killProcess(pid, false) returned.
cleanupTerm ==
  /\ Running("cleanup:term")
  /\ \E killed \in BOOLEAN :
       IF killed
       THEN Push("cleanup:wait", "wait:poll", [trail EXCEPT !.killed = TRUE])
       ELSE Return(Ok(0), trail)
  /\ info' = NoInfo
  /\ UNCHANGED <<config, probe, op, occ, listening, free, waited, scan>>
  /\ UNCHANGED brokerVars

\* ---- PortManager.findAvailablePort
\* The longest run of probes: the preferred port, the range, the retries.
MaxProbes == 1 + (PORT_RANGE_END - PORT_RANGE_START + 1) + MAX_RETRIES

FindProbed(tr, port, ok) ==
  [Probed(tr, port, ok) EXCEPT
     !.probes = IF @ < MaxProbes + 1 THEN @ + 1 ELSE @,
     !.consulted = TRUE]

\* Every retry failed, and the search starts over.
findExhaustedRestart(tr) ==
  Goto("find:range", tr)

\* Every retry failed: throw NO_AVAILABLE_PORTS.
findExhausted(tr) ==
  Return(Err("NO_AVAILABLE_PORTS"), tr)

findPreferred ==
  /\ Running("find:preferred")
  /\ LET available == isPortAvailable(op.port)
         tr == FindProbed(trail, op.port, available)
     IN IF available THEN Return(Ok(op.port), tr)
        ELSE Goto("find:range", tr)
  /\ UNCHANGED <<config, probe, op, occ, listening, free, info, waited, scan>>
  /\ UNCHANGED brokerVars

findRange ==
  /\ Running("find:range")
  /\ LET available == isPortAvailable(scan.port)
         tr == FindProbed(trail, scan.port, available)
     IN IF available
        THEN Return(Ok(scan.port), tr) /\ scan' = ScanStart
        ELSE IF scan.port + 1 <= PORT_RANGE_END
             THEN Goto("find:range", tr) /\ scan' = [scan EXCEPT !.port = @ + 1]
             ELSE IF 0 < MAX_RETRIES
                  THEN Goto("find:random", tr) /\ scan' = scan
                  ELSE findExhausted(tr) /\ scan' = ScanStart
  /\ UNCHANGED <<config, probe, op, occ, listening, free, info, waited>>
  /\ UNCHANGED brokerVars

findRandom ==
  /\ Running("find:random")
  /\ \E randomPort \in RandomPorts :
       LET available == isPortAvailable(randomPort)
           tr == FindProbed(trail, randomPort, available)
       IN IF available
          THEN Return(Ok(randomPort), tr) /\ scan' = ScanStart
          ELSE IF scan.i + 1 < MAX_RETRIES
               THEN Goto("find:random", tr) /\ scan' = [scan EXCEPT !.i = @ + 1]
               ELSE findExhausted(tr) /\ scan' = ScanStart
  /\ UNCHANGED <<config, probe, op, occ, listening, free, info, waited>>
  /\ UNCHANGED brokerVars

\* The caller runs findAvailablePort(preferredPort) a second time while
\* nothing else changes.
findAgain ==
  /\ op.fn = "findAvailablePort" /\ op.frozen
  /\ stack = <<>>
  /\ ret.status # "none"
  /\ trail.first.status = "none"
  /\ trail' = [NoTrail EXCEPT !.first = ret]
  /\ ret' = NoRet
  /\ stack' = <<findEntry>>
  /\ UNCHANGED <<config, probe, op, occ, listening, free, info, waited, scan, webPort>>
  /\ UNCHANGED brokerVars

\* ---- WebServer.start
startBegin ==
  /\ Running("start:begin")
  /\ IF webRunning
     THEN Return(Ok(0), trail)
     ELSE IF op.cleanup /\ (op.forcePort \/ op.port # 0)
          THEN Push("start:cleanup", "cleanup:lookup", trail)
          ELSE Push("start:negotiate", negotiateEntry(op.forcePort), trail)
  /\ UNCHANGED <<config, probe, op, occ, listening, free, info, waited, scan>>
  /\ UNCHANGED brokerVars

\* this.server.listen(this.port): the server listens.  When the address is
\* in use by now, the server emits 'error'; nothing listens for that event,
\* so the exception is uncaught and ends the process.
startListen ==
  /\ Running("start:listen")
  /\ IF Bindable(webPort)
     THEN /\ Return(Ok(0), [trail EXCEPT !.listened = webPort])
          /\ webRunning' = TRUE
          /\ proc' = proc
     ELSE /\ Return(Err("EADDRINUSE"), trail)
          /\ webRunning' = webRunning
          /\ proc' = "exited"
  /\ UNCHANGED <<config, probe, op, occ, listening, free, info, waited, scan>>
  /\ UNCHANGED <<dialogTimeout, objs, elapsed, arrays, table, inflight, nsub,
                 lastEmit, cleanupArmed, mcpRunning, transportOpen, stopPc>>

\* ---- the port operations that are exercised
Entry(fn) ==
  CASE fn = "forcePort" -> "forcePort:check"
    [] fn = "forceReleasePort" -> "release:lookup"
    [] fn = "cleanupPort" -> "cleanup:lookup"
    [] fn = "waitForPortRelease" -> "wait:poll"
    [] fn = "start" -> "start:begin"

PortCalls ==
  {[NoCall EXCEPT !.fn = "forcePort", !.port = 3000, !.kill = k] : k \in BOOLEAN}
  \cup {[NoCall EXCEPT !.fn = "forceReleasePort", !.port = 3000]}
  \cup {[NoCall EXCEPT !.fn = "cleanupPort", !.port = 3000]}
  \cup {[NoCall EXCEPT !.fn = "waitForPortRelease", !.port = 3000, !.timeoutMs = t] :
          t \in WaitTimeouts}
  \cup {[NoCall EXCEPT !.fn = "findAvailablePort", !.port = p, !.frozen = z] :
          p \in {0} \cup TargetPorts, z \in BOOLEAN}
  \cup {[NoCall EXCEPT !.fn = "start", !.port = p, !.forcePort = f, !.kill = k,
                       !.cleanup = c] :
          p \in TargetPorts, f \in BOOLEAN, k \in BOOLEAN, c \in BOOLEAN}

PortInit ==
  /\ dialogTimeout \in DialogTimeouts
  /\ objs = <<>>
  /\ elapsed = <<>>
  /\ arrays = <<>>
  /\ table = EmptyTable
  /\ inflight = {}
  /\ nsub = 0
  /\ lastEmit = NoEmit
  /\ cleanupArmed = FALSE
  /\ webRunning = FALSE
  /\ mcpRunning = FALSE
  /\ transportOpen = FALSE
  /\ stopPc = "idle"
  /\ proc = "constructed"
  /\ op \in PortCalls
  /\ stack = <<IF op.fn = "findAvailablePort" THEN findEntry ELSE Entry(op.fn)>>
  /\ ret = NoRet
  /\ occ \in {0} \cup Pids
  /\ listening \in IF occ = 0 THEN {FALSE} ELSE BOOLEAN
  /\ free \in FreeSets
  /\ info = NoInfo
  /\ waited = 0
  /\ scan = ScanStart
  /\ webPort = 0
  /\ trail = NoTrail
  /\ probe = NoProbe
  /\ config = NoConfig

PortNext ==
  \/ \E p \in Pids : EnvBind(p)
  \/ EnvUnbind
  \/ EnvExit
  \/ releaseLookup
  \/ releaseTerm
  \/ releasePause
  \/ releaseKill
  \/ releaseVerify
  \/ forcePortCheck
  \/ forcePortFinal
  \/ waitPoll
  \/ waitLookup
  \/ waitSleep
  \/ cleanupLookup
  \/ cleanupTerm
  \/ findPreferred
  \/ findRange
  \/ findRandom
  \/ findAgain
  \/ startBegin
  \/ startListen

PortSpec == PortInit /\ [][PortNext]_vars

\* findAvailablePort on its own.
FindInit == PortInit /\ op.fn = "findAvailablePort"

FindStep ==
  \/ findPreferred
  \/ findRange
  \/ findRandom
  \/ findAgain

FindNext ==
  \/ \E p \in Pids : EnvBind(p)
  \/ EnvUnbind
  \/ EnvExit
  \/ findPreferred
  \/ findRange
  \/ findRandom
  \/ findAgain

FindSpec == FindInit /\ [][FindNext]_vars

\* Every probe of the search completes (isPortAvailable answers within its
\* 1000 ms watchdog).
FindFairSpec == FindSpec /\ WF_vars(FindStep)

\* ---- PortManager.isPortAvailable, event by event
\* net.Server: listen(port) binds at once (the handle listens from then on)
\* and 'listening' or 'error' is emitted on a later tick; 'listening' is
\* not emitted when the handle has been closed meanwhile.  close(cb) closes
\* the handle if there is one and calls cb on a later tick in either case.

\* server.close() that leaves the handle alone.
closeHandleNot(handle) == handle

\* server.close(): the listening handle is closed.
closeHandle(handle) == IF handle = "bound" THEN "closed" ELSE handle

\* The handlers of isPortAvailable without their test of the flag.
alreadyResolvedIgnored(p) == FALSE

\* `if (!resolved)`: an earlier handler has taken the decision.
alreadyResolved(p) == p.resolved

\* resolve(value): the promise of isPortAvailable is settled.
resolve(p, value) ==
  [p EXCEPT !.result = value, !.resolves = @ + 1, !.pc = "done"]

\* createServer(); setTimeout(..., 1000); server.listen(port, cb);
\* server.on('error', ...)
probeStart ==
  /\ op.fn = "isPortAvailable"
  /\ probe.pc = "idle"
  /\ probe' = [probe EXCEPT
       !.pc = "running",
       !.port = op.port,
       !.timer = TRUE,
       !.handle = IF Bindable(op.port) THEN "bound" ELSE "none",
       !.pending = IF Bindable(op.port) THEN {"listening"} ELSE {"error"}]
  /\ UNCHANGED <<config, op, stack, ret, occ, listening, free, info, waited, scan, webPort, trail>>
  /\ UNCHANGED brokerVars

\* The listen callback: close the test server, then resolve(true).
probeListening ==
  /\ "listening" \in probe.pending
  /\ probe' =
       IF probe.handle # "bound"
       THEN [probe EXCEPT !.pending = @ \ {"listening"}]
       ELSE IF alreadyResolved(probe)
            THEN [probe EXCEPT !.pending = @ \ {"listening"},
                               !.events = Append(@, "listening")]
            ELSE [probe EXCEPT !.pending = @ \ {"listening"},
                               !.events = Append(@, "listening"),
                               !.resolved = TRUE,
                               !.timer = FALSE,
                               !.handle = closeHandle(@),
                               !.closing = "true"]
  /\ UNCHANGED <<config, op, stack, ret, occ, listening, free, info, waited, scan, webPort, trail>>
  /\ UNCHANGED brokerVars

\* The 'error' handler: resolve(false).
probeError ==
  /\ "error" \in probe.pending
  /\ probe' =
       IF alreadyResolved(probe)
       THEN [probe EXCEPT !.pending = @ \ {"error"},
                          !.events = Append(@, "error")]
       ELSE resolve([probe EXCEPT !.pending = @ \ {"error"},
                                  !.events = Append(@, "error"),
                                  !.resolved = TRUE,
                                  !.timer = FALSE], "false")
  /\ UNCHANGED <<config, op, stack, ret, occ, listening, free, info, waited, scan, webPort, trail>>
  /\ UNCHANGED brokerVars

\* The 1000 ms watchdog: close the test server, then resolve(false).
probeTimeout ==
  /\ probe.timer
  /\ probe' =
       IF alreadyResolved(probe)
       THEN [probe EXCEPT !.timer = FALSE,
                          !.events = Append(@, "timeout")]
       ELSE [probe EXCEPT !.timer = FALSE,
                          !.events = Append(@, "timeout"),
                          !.resolved = TRUE,
                          !.handle = closeHandle(@),
                          !.closing = "false"]
  /\ UNCHANGED <<config, op, stack, ret, occ, listening, free, info, waited, scan, webPort, trail>>
  /\ UNCHANGED brokerVars

\* The callback of server.close: resolve(...).
probeClosed ==
  /\ probe.closing # "none"
  /\ probe' = resolve([probe EXCEPT !.closing = "none"], probe.closing)
  /\ UNCHANGED <<config, op, stack, ret, occ, listening, free, info, waited, scan, webPort, trail>>
  /\ UNCHANGED brokerVars

ProbeCalls ==
  {[NoCall EXCEPT !.fn = "isPortAvailable", !.port = p] : p \in TargetPorts}

ProbeInit ==
  /\ dialogTimeout \in DialogTimeouts
  /\ objs = <<>>
  /\ elapsed = <<>>
  /\ arrays = <<>>
  /\ table = EmptyTable
  /\ inflight = {}
  /\ nsub = 0
  /\ lastEmit = NoEmit
  /\ cleanupArmed = FALSE
  /\ webRunning = FALSE
  /\ mcpRunning = FALSE
  /\ transportOpen = FALSE
  /\ stopPc = "idle"
  /\ proc = "constructed"
  /\ op \in ProbeCalls
  /\ stack = <<>>
  /\ ret = NoRet
  /\ occ \in {0} \cup Pids
  /\ listening \in IF occ = 0 THEN {FALSE} ELSE BOOLEAN
  /\ free \in FreeSets
  /\ info = NoInfo
  /\ waited = 0
  /\ scan = ScanStart
  /\ webPort = 0
  /\ trail = NoTrail
  /\ probe = NoProbe
  /\ config = NoConfig

ProbeNext ==
  \/ probeStart
  \/ probeListening
  \/ probeError
  \/ probeTimeout
  \/ probeClosed

ProbeSpec == ProbeInit /\ [][ProbeNext]_vars

\* waitForPortRelease on its own.
WaitInit == PortInit /\ op.fn = "waitForPortRelease"

WaitStep ==
  \/ waitPoll
  \/ waitLookup
  \/ waitSleep

WaitNext ==
  \/ \E p \in Pids : EnvBind(p)
  \/ EnvUnbind
  \/ EnvExit
  \/ waitPoll
  \/ waitLookup
  \/ waitSleep

WaitSpec == WaitInit /\ [][WaitNext]_vars

\* Every poll completes (the probe within its watchdog, the process query
\* when its child process ends) and every sleep ends.
WaitFairSpec == WaitSpec /\ WF_vars(WaitStep)

PortTypeOK ==
  /\ op \in PortCalls
  /\ ret.status \in {"none", "ok", "error"}
  /\ occ \in {0} \cup Pids
  /\ listening \in BOOLEAN
  /\ waited \in 0..(CleanupWaitMs + PollMs)
  /\ scan.port \in PORT_RANGE_START..PORT_RANGE_END
  /\ scan.i \in 0..MAX_RETRIES

\* ---- configuration
\* Outcomes of getEnvNumber: parseInt of the variable, or the default.
WebPorts == {-1, 80, 1023, 1024, 5000, 65535, 65536, 70000}
ConfigTimeouts == {-1, 5, 9, 10, 300, 60000, 60001, 70000}
FileSizes == {500, 1023, 1024, 10485760, 104857600, 104857601, 209715200}

\* A URL text is the sequence of its parts.
ApiBaseUrls ==
  {<<"https", ":", "//", "api.ssopen.top">>, <<"http", ":", "//", "localhost:8080">>,
   <<"mailto", ":", "ops@example.com">>, <<"https", ":", "//">>,
   <<"not-a-valid-url">>, <<"//", "api.ssopen.top">>, <<>>}

LogLevels == {"error", "warn", "info", "debug", "invalid-level", "INFO", ""}

SpecialSchemes == {"http", "https", "ws", "wss", "ftp", "file"}
SchemeNames == SpecialSchemes \cup {"mailto"}

\* new URL(text) without a base: the text starts with a scheme and a colon,
\* and a special scheme other than file is followed by a host.
ParsesAsURL(text) ==
  /\ Len(text) >= 2
  /\ text[1] \in SchemeNames
  /\ text[2] = ":"
  /\ text[1] \in SpecialSchemes \ {"file"} => Len(text) >= 4 /\ text[4] # ""

validLogLevels == {"error", "warn", "info", "debug"}

\* validateConfig testing the timeout before the port.
validateConfigTimeoutFirst(c) ==
  IF c.dialogTimeout < 10 \/ c.dialogTimeout > 60000 THEN "INVALID_TIMEOUT"
  ELSE IF c.webPort < 1024 \/ c.webPort > 65535 THEN "INVALID_PORT"
  ELSE IF c.maxFileSize < 1024 \/ c.maxFileSize > 104857600 THEN "INVALID_FILE_SIZE"
  ELSE IF ~ParsesAsURL(c.apiBaseUrl) THEN "INVALID_API_URL"
  ELSE IF c.logLevel \notin validLogLevels THEN "INVALID_LOG_LEVEL"
  ELSE "ok"

\* validateConfig: the code of the MCPError it throws, "ok" when it returns.
validateConfig(c) ==
  IF c.webPort < 1024 \/ c.webPort > 65535 THEN "INVALID_PORT"
  ELSE IF c.dialogTimeout < 10 \/ c.dialogTimeout > 60000 THEN "INVALID_TIMEOUT"
  ELSE IF c.maxFileSize < 1024 \/ c.maxFileSize > 104857600 THEN "INVALID_FILE_SIZE"
  ELSE IF ~ParsesAsURL(c.apiBaseUrl) THEN "INVALID_API_URL"
  ELSE IF c.logLevel \notin validLogLevels THEN "INVALID_LOG_LEVEL"
  ELSE "ok"

\* createDefaultConfig()
createDefaultConfig ==
  [webPort : WebPorts, dialogTimeout : ConfigTimeouts, maxFileSize : FileSizes,
   apiBaseUrl : ApiBaseUrls, logLevel : LogLevels, result : {"none"}]

\* getConfig(): createDefaultConfig(), then validateConfig(config).
getConfig ==
  /\ config.result = "none"
  /\ config' = [config EXCEPT !.result = validateConfig(config)]
  /\ UNCHANGED <<op, stack, ret, occ, listening, free, info, waited, scan, webPort, trail, probe>>
  /\ UNCHANGED brokerVars

ConfigInit ==
  /\ dialogTimeout \in DialogTimeouts
  /\ objs = <<>>
  /\ elapsed = EmptyTable
  /\ arrays = <<>>
  /\ table = EmptyTable
  /\ inflight = {}
  /\ nsub = 0
  /\ lastEmit = NoEmit
  /\ cleanupArmed = FALSE
  /\ webRunning = FALSE
  /\ mcpRunning = FALSE
  /\ transportOpen = FALSE
  /\ stopPc = "idle"
  /\ proc = "constructed"
  /\ op = NoCall
  /\ stack = <<>>
  /\ ret = NoRet
  /\ occ = 0
  /\ listening = FALSE
  /\ free = {}
  /\ info = NoInfo
  /\ waited = 0
  /\ scan = ScanStart
  /\ webPort = 0
  /\ trail = NoTrail
  /\ probe = NoProbe
  /\ config \in createDefaultConfig

ConfigNext == getConfig

ConfigSpec == ConfigInit /\ [][ConfigNext]_vars

\* ---- the session table while the server runs
\* The state after MCPServer.start() or startWebOnly().
ServingInit ==
  /\ dialogTimeout \in DialogTimeouts
  /\ objs = <<>>
  /\ elapsed = EmptyTable
  /\ arrays = <<>>
  /\ table = EmptyTable
  /\ inflight = {}
  /\ nsub = 0
  /\ lastEmit = NoEmit
  /\ cleanupArmed = TRUE
  /\ webRunning = TRUE
  /\ mcpRunning = TRUE
  /\ transportOpen \in BOOLEAN
  /\ stopPc = "idle"
  /\ proc = "running"
  /\ PortIdle

ServingNext ==
  \/ Tick
  \/ \E r \in Rands : ToolCall(NextSummary, r, "listening")
  \/ \E secs \in TestTimeouts, r \in Rands : TestSession(NextSummary, secs, r)
  \/ \E c \in 1..MaxEvents : TimerFire(c)
  \/ cleanupExpiredSessions
  \/ \E sid \in SessionIds, text \in BOOLEAN, imgs \in 0..1 : submit_feedback(sid, text, imgs)
  \/ \E f \in inflight, ok \in BOOLEAN : ImagesProcessed(f, ok)
  \/ request_session

ServingSpec == ServingInit /\ [][ServingNext]_vars

\* The handlers of the socket over the session table of a serving web
\* server: sessions come from tool calls and from the test route, the clock
\* advances, and the sweep of SessionStorage runs between the events.
SocketNext ==
  \/ Tick
  \/ \E r \in Rands : ToolCall(NextSummary, r, "listening")
  \/ \E secs \in TestTimeouts, r \in Rands : TestSession(NextSummary, secs, r)
  \/ cleanupExpiredSessions
  \/ \E sid \in SessionIds, text \in BOOLEAN, imgs \in 0..1 : submit_feedback(sid, text, imgs)
  \/ \E f \in inflight, ok \in BOOLEAN : ImagesProcessed(f, ok)
  \/ \E sid \in SessionIds : get_work_summary(sid)

SocketSpec == ServingInit /\ [][SocketNext]_vars

\* ---- session creation
\* timeout_seconds of a POST /api/test-session body: the route reads it with
\* a default of 300 and tests nothing about it.
PostedTimeouts == {0, 5, 10, 300, 60000, 70000}

IntakeNext ==
  \/ \E r \in Rands : ToolCall(NextSummary, r, "listening")
  \/ \E secs \in PostedTimeouts, r \in Rands : TestSession(NextSummary, secs, r)
  \/ \E sid \in SessionIds, text \in BOOLEAN, imgs \in 0..1 : submit_feedback(sid, text, imgs)
  \/ \E f \in inflight, ok \in BOOLEAN : ImagesProcessed(f, ok)

IntakeSpec == ServingInit /\ [][IntakeNext]_vars

\* The session of an earlier POST /api/test-session, which has received
\* one response (numbered 0) since.
EarlierSession ==
  [id |-> 1, workSummary |-> 1, fb |-> 1, timeout |-> 300 * MsPerSecond, secs |-> 300,
   cont |-> FALSE, timer |-> "none", invs |-> <<>>, promise |-> PendingPromise,
   result |-> NoResult]

\* The running server with that session in its table.
ResumeInit ==
  /\ dialogTimeout \in DialogTimeouts
  /\ objs = <<EarlierSession>>
  /\ elapsed = (1 :> 0)
  /\ arrays = <<(<<0>>)>>
  /\ table = (1 :> 1)
  /\ inflight = {}
  /\ nsub = 0
  /\ lastEmit = NoEmit
  /\ cleanupArmed = TRUE
  /\ webRunning = TRUE
  /\ mcpRunning = TRUE
  /\ transportOpen \in BOOLEAN
  /\ stopPc = "idle"
  /\ proc = "running"
  /\ PortIdle

ResumeSpec == ResumeInit /\ [][IntakeNext]_vars

\* ------------------------------------------------------ properties
Objects == 1..Len(objs)

\* The objects created by WebServer.collectFeedback.
Calls == {o \in Objects : objs[o].cont}

InTable(o) == \E id \in DOMAIN table : table[id] = o

TimeoutCodes == {"SESSION_TIMEOUT", "FEEDBACK_TIMEOUT"}

Last(q) == q[Len(q)]

CallsOf(o) == {objs[o].invs[k] : k \in 1..Len(objs[o].invs)}

\* Kinds of step, told by their effect.
AcceptStep == lastEmit' # lastEmit /\ lastEmit'.ev = "feedback_submitted"

ClearStep == stopPc = "idle" /\ stopPc' = "closing"

CreateStep == Len(objs') > Len(objs)

ExitStep == proc # "exited" /\ proc' = "exited"

\* No other session was created with the id of o.
UniqueId(o) == \A q \in Objects \ {o} : objs[q].id # objs[o].id

\* C1: the continuation callables of a session created by collectFeedback
\* are invoked exactly once in total: at most once, and once as soon as the
\* session is no longer in the table.  Stated for the sessions whose id no
\* other session shares, where leaving the table is the removal of the id.
C1_ExactlyOnce ==
  \A o \in Calls :
    UniqueId(o) =>
      /\ Len(objs[o].invs) <= 1
      /\ objs[o].id \notin DOMAIN table => Len(objs[o].invs) = 1

\* C2: every tool call that reached WebServer.collectFeedback eventually
\* returns a result to the caller.  Stated for the sessions whose id no
\* other session shares.
Returned(c) == c \in Calls /\ objs[c].result.status # "none"

C2_EventuallyReturns ==
  \A c \in 1..MaxEvents :
    (c \in Calls) ~> (c \in Calls /\ (Returned(c) \/ ~UniqueId(c)))

\* C3: the result of a tool call is the image of the first continuation
\* call of its session (success with the responses, timeout failure,
\* shutdown failure), and no later call changes it.
ExpectedResult(call) ==
  IF call.fn = "resolve"
  THEN [status |-> "ok", content |-> call.arg, code |-> "", secs |-> 0]
  ELSE [status |-> "error", content |-> <<>>, code |-> call.code,
        secs |-> call.secs]

C3_ResultIsFirstEvent ==
  \A o \in Calls :
    IF objs[o].invs = <<>>
    THEN objs[o].result = NoResult
    ELSE /\ objs[o].result = ExpectedResult(objs[o].invs[1])
         /\ objs[o].invs[1].fn = "reject" =>
              objs[o].invs[1].code \in TimeoutCodes \cup {"SERVER_SHUTDOWN"}

C3_Witness ==
  \E o \in Calls :
    /\ Len(objs[o].invs) >= 2
    /\ objs[o].invs[1].fn # objs[o].invs[2].fn
    /\ objs[o].result.status = "ok"
    /\ objs[o].result.content # <<>>

\* C4: no step replaces the session an id is mapped to by another session.
C4_NoOverwrite ==
  [][\A id \in DOMAIN table : id \in DOMAIN table' => table'[id] = table[id]]_vars

\* C5: a submission accepted for a session that is in the table and has a
\* continuation invokes resolve with the session's responses so far followed
\* by that submission.
C5_ResolveWithResponses ==
  [][AcceptStep =>
       LET e == lastEmit'
           o == e.obj
       IN (e.sid \in DOMAIN table /\ table[e.sid] = o /\ objs[o].cont) =>
            objs'[o].invs =
              Append(objs[o].invs, ResolveCall(Append(arrays[objs[o].fb], e.n)))]_vars

C5_Witness ==
  /\ lastEmit.ev = "feedback_submitted"
  /\ lastEmit.obj \in Calls
  /\ objs[lastEmit.obj].invs # <<>>
  /\ Last(objs[lastEmit.obj].invs).fn = "resolve"
  /\ Last(Last(objs[lastEmit.obj].invs).arg) = lastEmit.n
  /\ objs[lastEmit.obj].result.status = "ok"

\* C6: right after feedback_submitted has been sent for session id s, s is
\* not in the table.
C6_AcceptedThenGone ==
  [][AcceptStep => lastEmit'.sid \notin DOMAIN table']_vars

\* C7: when the timeout of a session fires (its timer, or a sweep that
\* finds it expired), the error continuation is invoked with a timeout error
\* naming the session's configured seconds, the deadline has passed, and the
\* session's id is no longer in the table.
TimeoutStep(o) ==
  /\ Len(objs') = Len(objs)
  /\ Len(objs'[o].invs) = Len(objs[o].invs) + 1
  /\ Last(objs'[o].invs).code \in TimeoutCodes

TimerStep(o) ==
  /\ Len(objs') = Len(objs)
  /\ objs[o].timer = "armed"
  /\ objs'[o].timer = "fired"

C8_NotBeforeDeadline ==
  [][~(AcceptStep \/ ClearStep \/ CreateStep \/ ExitStep) =>
       \A id \in DOMAIN table :
         LET o == table[id]
         IN Elapsed(o) < objs[o].timeout =>
              /\ id \in DOMAIN table'
              /\ table'[id] = o
              /\ objs'[o].invs = objs[o].invs]_vars

\* C9: clear rejects every session of the table that has a continuation
\* with SERVER_SHUTDOWN and leaves the table empty.
C9_ClearRejectsAll ==
  [][ClearStep =>
       /\ DOMAIN table' = {}
       /\ \A id \in DOMAIN table :
            objs[table[id]].cont =>
              objs'[table[id]].invs =
                Append(objs[table[id]].invs, RejectCall("SERVER_SHUTDOWN", 0))]_vars

C9_Witness ==
  /\ stopPc = "closing"
  /\ table = EmptyTable
  /\ \E o \in Calls : Last(objs[o].invs).code = "SERVER_SHUTDOWN" /\ Len(objs[o].invs) = 1

\* C10: when the process exits, every session still in the table that has a
\* continuation has been rejected with a shutdown error.
C10_ShutdownRejectsAll ==
  [][ExitStep =>
       \A id \in DOMAIN table :
         objs[table[id]].cont =>
           \E c \in CallsOf(table[id]) : c.code = "SERVER_SHUTDOWN"]_vars

\* ---- port negotiation
Done == op.fn # "none" /\ stack = <<>> /\ ret.status # "none"
Kills == {trail.kills[k] : k \in 1..Len(trail.kills)}

\* C11: in every port operation a process is sent a kill, graceful or
\* forced, only if isSafeToKill returned true for it in the same operation,
\* and not after the operation got a refusal for it, whatever the
\* allow-kill flag.
C11_KillOnlyAfterSafeVerdict ==
  \A k \in Kills :
    /\ \E v \in trail.verdicts : v.by = k.by /\ v.pid = k.pid /\ v.safe
    /\ \A v \in trail.verdicts : v.by = k.by /\ v.pid = k.pid => v.safe

\* WebServer.start with killing allowed: cleanupPort refused one occupant,
\* and forceReleasePort sent another one a graceful and a forced kill.
C11_Witness ==
  /\ op.fn = "start" /\ op.kill
  /\ \E v \in trail.verdicts : v.by = "cleanupPort" /\ ~v.safe
  /\ \E k \in Kills : k.by = "forceReleasePort" /\ k.force

Entries(list) == {list[k] : k \in 1..Len(list)}
Matches(list, v) ==
  \E e \in Entries(list) :
    includes(toLowerCase(v.name), e) \/ includes(toLowerCase(v.command), e)

\* C12: isSafeToKill is fail-closed.  Every verdict it gives is true exactly
\* when the occupant's name or command line matches the allow list and no
\* entry of the deny list; an occupant matching neither list, such as one
\* reported as 'Unknown', gets false, and so does one matching both.
C12_FailClosed ==
  [][\A v \in trail'.verdicts \ trail.verdicts :
       /\ v.safe = (Matches(safePrefixes, v) /\ ~Matches(dangerousNames, v))
       /\ v.name = Unknown => ~v.safe]_vars

\* Refused: `npm init` (on both lists), sshd (on neither) and an occupant
\* whose details could not be read.
C12_Witness ==
  /\ \E v \in trail.verdicts :
       Matches(safePrefixes, v) /\ Matches(dangerousNames, v) /\ ~v.safe
  /\ \E v \in trail.verdicts :
       ~v.safe /\ (v.name = Unknown \/ ~Matches(dangerousNames, v))

\* C13: forcePort(port, killProcess = false) looks up and kills no process;
\* it returns the port when its probe found the port free and fails with
\* PORT_OCCUPIED when the probe found it occupied.
C13_NoKillWithoutFlag ==
  op.fn = "forcePort" /\ ~op.kill =>
    /\ trail.kills = <<>>
    /\ trail.verdicts = {}
    /\ Done => ret = IF trail.lastProbe.ok THEN Ok(op.port) ELSE Err("PORT_OCCUPIED")

\* The call failed with PORT_OCCUPIED on a port a process listens on.
C13_Witness ==
  /\ op.fn = "forcePort" /\ ~op.kill /\ Done
  /\ ret = Err("PORT_OCCUPIED")
  /\ occ # 0 /\ listening

C15_RecheckAfterKill ==
  op.fn = "forcePort" /\ Done =>
    /\ ret.status = "ok" =>
         ret.value = op.port /\ trail.lastProbe = [port |-> op.port, ok |-> TRUE]
    /\ trail.killed =>
         /\ trail.rechecked
         /\ ret = Ok(op.port) \/ ret = Err("PORT_STILL_OCCUPIED")

\* C16: with config.forcePort set, WebServer.start never runs
\* findAvailablePort and probes no port but config.webPort; it ends with
\* the server listening on config.webPort or with an error and no server
\* listening.
C16_ForcedPortNoFallback ==
  op.fn = "start" /\ op.forcePort =>
    /\ ~trail.consulted
    /\ ~trail.strayed
    /\ Done =>
         \/ ret.status = "error" /\ ~webRunning /\ trail.listened = 0
         \/ /\ ret.status = "ok"
            /\ webRunning
            /\ webPort = op.port
            /\ trail.listened = op.port

\* A forced-port start that killed the occupant of the configured port and
\* then listens on that port.
C16_Witness ==
  /\ op.fn = "start" /\ op.forcePort /\ Done
  /\ trail.killed
  /\ webRunning /\ trail.listened = op.port

\* The ports findAvailablePort may probe at the n-th probe of a run: the
\* preferred port if given, then the range in ascending order, then ports of
\* the random fallback.
RangeSize == PORT_RANGE_END - PORT_RANGE_START + 1
ExpectedPorts(n) ==
  LET k == IF op.port # 0 THEN n - 1 ELSE n
  IN IF k = 0 THEN {op.port}
     ELSE IF k <= RangeSize THEN {PORT_RANGE_START + k - 1}
     ELSE RANDOM_PORT_MIN..RANDOM_PORT_MAX
FindProbeStep == trail'.consulted /\ trail'.probes = trail.probes + 1
FindRunning(stk) ==
  stk # <<>> /\ stk[Len(stk)] \in {"find:preferred", "find:range", "find:random"}

\* C17: findAvailablePort probes the preferred port (if given), then
\* 5000..5019 in ascending order, then random fallback ports; it probes
\* nothing after a probe succeeded and returns the port of the first
\* successful probe.
C17_ProbeOrder ==
  [][FindProbeStep =>
       /\ trail'.lastProbe.port \in ExpectedPorts(trail'.probes)
       /\ trail.probes > 0 => ~trail.lastProbe.ok
       /\ trail'.lastProbe.ok =>
            /\ ~FindRunning(stack')
            /\ IF op.fn = "start" THEN webPort' = trail'.lastProbe.port
               ELSE ret' = Ok(trail'.lastProbe.port)
       /\ ~trail'.lastProbe.ok => ret'.status # "ok" /\ webPort' = webPort]_vars

\* With no preferred port and 5003 the only free port of the range, the
\* call returned 5003 after four probes.
C17_Witness ==
  /\ op.fn = "findAvailablePort" /\ op.port = 0 /\ Done
  /\ free \cap (PORT_RANGE_START..PORT_RANGE_END) = {5003}
  /\ ret = Ok(5003)
  /\ trail.probes = 4

\* C18: findAvailablePort always terminates.  A running search ends; it never
\* makes more probes than the preferred port, the 20 ports of the range and
\* MAX_RETRIES random ports; and when it fails, it fails with
\* NO_AVAILABLE_PORTS after exactly those probes, all of them unsuccessful.
C18_FindTerminates ==
  /\ [](trail.probes <= MaxProbes)
  /\ [](op.fn = "findAvailablePort" /\ Done /\ ret.status = "error" =>
          /\ ret = Err("NO_AVAILABLE_PORTS")
          /\ ~trail.lastProbe.ok
          /\ trail.probes = (IF op.port # 0 THEN 1 ELSE 0) + RangeSize + MAX_RETRIES)
  /\ (FindRunning(stack) ~> ~FindRunning(stack))

\* A search with a preferred port found nothing free and failed after 41
\* probes.
C18_Witness ==
  /\ op.fn = "findAvailablePort" /\ op.port # 0 /\ Done
  /\ ret = Err("NO_AVAILABLE_PORTS")
  /\ trail.probes = MaxProbes

\* C19: two runs of findAvailablePort with the same preferred port, between
\* and during which no port changes its availability, return the same port
\* or both fail.
C19_Deterministic ==
  op.fn = "findAvailablePort" /\ op.frozen /\ Done /\ trail.first.status # "none" =>
    ret = trail.first

WaitRunning(stk) ==
  stk # <<>> /\ stk[Len(stk)] \in {"wait:poll", "wait:lookup", "wait:sleep"}
\* waitForPortRelease returns (its only return follows the process lookup).
WaitReturns == Running("wait:lookup") /\ ~WaitRunning(stack')
\* The first step of a waitForPortRelease called on a bindable port.
WaitStartsOnFreePort ==
  Running("wait:poll") /\ ~trail.polled /\ stack' # stack /\ Bindable(op.port)
\* The occupant lookup of the first poll, with no process on the port.
WaitFirstLookupFindsNone ==
  Running("wait:lookup") /\ ~trail.slept /\ stack' # stack /\ occ = 0

\* C20 as stated: waitForPortRelease returns successfully only after a poll
\* that found the port bindable and without an occupant; called on a port
\* that satisfies both, it polls and returns at once without sleeping,
\* whatever timeoutMs is.
C20_AnyTimeout ==
  [][/\ WaitReturns => trail'.poll.bind /\ trail'.poll.absent
     /\ WaitStartsOnFreePort => trail'.polled /\ Running("wait:lookup")'
     /\ WaitFirstLookupFindsNone =>
          /\ WaitReturns /\ ~trail'.slept
          /\ op.fn = "waitForPortRelease" => ret' = Ok(0)]_vars

\* C20, for a positive timeoutMs: waitForPortRelease returns successfully
\* only after a poll that found the port bindable and without an occupant;
\* called with timeoutMs > 0 on a port that satisfies both, it polls and
\* returns at once without sleeping.
C20_PositiveTimeout ==
  [][/\ WaitReturns => trail'.poll.bind /\ trail'.poll.absent
     /\ WaitStartsOnFreePort /\ WaitTimeout > 0 =>
          trail'.polled /\ Running("wait:lookup")'
     /\ WaitFirstLookupFindsNone =>
          /\ WaitReturns /\ ~trail'.slept
          /\ op.fn = "waitForPortRelease" => ret' = Ok(0)]_vars

\* waitForPortRelease(port, 400) returned at its first poll, without
\* sleeping.
C20_Witness ==
  /\ op.fn = "waitForPortRelease" /\ op.timeoutMs > 0 /\ Done
  /\ ret = Ok(0)
  /\ trail.polled /\ ~trail.slept
  /\ trail.poll = [bind |-> TRUE, absent |-> TRUE]

\* C21: waitForPortRelease always returns control.  A running wait ends; it
\* sleeps no further once timeoutMs has elapsed; and when it fails, it
\* fails with PORT_RELEASE_TIMEOUT.
C21_WaitReturnsControl ==
  /\ [](waited < WaitTimeout + PollMs)
  /\ [](op.fn = "waitForPortRelease" /\ Done /\ ret.status = "error" =>
          ret = Err("PORT_RELEASE_TIMEOUT"))
  /\ (WaitRunning(stack) ~> Done)

\* A wait of 3000 ms on a port that stayed occupied ended with the timeout
\* error.
C21_Witness ==
  /\ op.fn = "waitForPortRelease" /\ op.timeoutMs = 3000 /\ Done
  /\ ret = Err("PORT_RELEASE_TIMEOUT")
  /\ trail.slept /\ occ # 0

\* C22: isPortAvailable never leaves its test listener open.  Whatever the
\* order of the listen callback, the error event and the 1000 ms watchdog,
\* the probe server does not listen once the probe has answered.
C22_ProbeListenerClosed ==
  probe.result # "none" => probe.handle # "bound"

\* The watchdog fired before the listen callback; the probe answered false,
\* the handle is closed and the late 'listening' was not delivered.
C22_Witness ==
  /\ probe.pc = "done" /\ probe.result = "false"
  /\ probe.handle = "closed"
  /\ probe.pending = {}

\* C23: cleanupPort never raises: whatever the occupant lookup, the
\* classification, the kill and the release wait yield, it returns
\* normally; and it kills nothing when the lookup found no occupant or
\* isSafeToKill refused the occupant.
C23_CleanupNeverRaises ==
  op.fn = "cleanupPort" =>
    /\ Done => ret = Ok(0)
    /\ trail.kills # <<>> => \E v \in trail.verdicts : v.by = "cleanupPort" /\ v.safe
    /\ \A k \in Kills : ~k.force

\* cleanupPort killed a safe occupant, waited 5000 ms in vain for the port
\* and still returned normally.
C23_Witness ==
  /\ op.fn = "cleanupPort" /\ Done
  /\ ret = Ok(0)
  /\ trail.killed /\ trail.slept
  /\ occ # 0
  /\ trail.poll # [bind |-> TRUE, absent |-> TRUE]

\* The interactive-feedback tool found the web server stopped and
\* WebServer.start did not bring it up.
StartFailedStep ==
  lastEmit' # lastEmit /\ lastEmit'.ev \in {"tool_error", "uncaught_exception"}

\* C24: when the web server cannot be started during a tool call, because
\* the port negotiation or the listen fails, the tool call returns a failure
\* result and the session table is as it was.
C24_StartFailureIsReturned ==
  [][StartFailedStep =>
       /\ lastEmit'.ev = "tool_error"
       /\ proc' = "running"
       /\ table' = table
       /\ objs' = objs]_vars

\* C25: a submit_feedback naming an unknown or expired session is answered
\* with the 'session does not exist or has expired' error, one for a live
\* session with neither text nor image with the 'provide text or images'
\* error; in both cases no response is appended, no continuation is invoked
\* and no handler is left suspended.
C25_DistinctRejections ==
  [][\A sid \in SessionIds, text \in BOOLEAN, imgs \in 0..1 :
       submit_feedback(sid, text, imgs) =>
         /\ getSession(sid) = 0 =>
              lastEmit'.ev = "session_expired" /\ UNCHANGED <<objs, arrays, inflight>>
         /\ getSession(sid) # 0 /\ ~text /\ imgs = 0 =>
              lastEmit'.ev = "empty_submission" /\ UNCHANGED <<objs, arrays, inflight>>
         /\ lastEmit'.ev \in {"session_expired", "empty_submission"} =>
              getSession(sid) = 0 \/ (~text /\ imgs = 0)]_vars

\* An empty submission to a live session was rejected; the session is still
\* in the table and has no response.
C25_Witness ==
  /\ lastEmit.ev = "empty_submission"
  /\ \E id \in DOMAIN table :
       /\ ~Expired(table[id])
       /\ arrays[objs[table[id]].fb] = <<>>
       /\ objs[table[id]].invs = <<>>


\* C26: request_session answers with the most recently created session
\* whose deadline has not passed, and with 'no active session' exactly when
\* the Map holds no such session: it never assigns a session whose deadline
\* has already passed.
C26_AssignsOnlyLive ==
  /\ lastEmit.ev = "session_assigned" =>
       /\ lastEmit.sid \in DOMAIN table
       /\ ~Expired(table[lastEmit.sid])
       /\ \A id \in DOMAIN table :
            ~Expired(table[id]) => Elapsed(table[lastEmit.sid]) <= Elapsed(table[id])
  /\ lastEmit.ev = "no_active_session" => \A id \in DOMAIN table : Expired(table[id])


\* The fields of a configuration in the order validateConfig names them,
\* each with its error and its valid values.
FieldOrder ==
  <<[code |-> "INVALID_PORT", ok |-> config.webPort \in 1024..65535],
    [code |-> "INVALID_TIMEOUT", ok |-> config.dialogTimeout \in 10..60000],
    [code |-> "INVALID_FILE_SIZE", ok |-> config.maxFileSize \in 1024..104857600],
    [code |-> "INVALID_API_URL", ok |-> ParsesAsURL(config.apiBaseUrl)],
    [code |-> "INVALID_LOG_LEVEL", ok |-> config.logLevel \in {"error", "warn", "info", "debug"}]>>

\* C27: validateConfig accepts a configuration exactly when webPort is in
\* [1024, 65535], dialogTimeout in [10, 60000], maxFileSize in
\* [1024, 104857600], apiBaseUrl parses as a URL and logLevel is one of
\* error/warn/info/debug; otherwise it throws the error of the first
\* violated field in that order.
C27_ValidateConfig ==
  config.result # "none" =>
    /\ config.result = "ok" <=> \A i \in 1..5 : FieldOrder[i].ok
    /\ \A i \in 1..5 :
         ~FieldOrder[i].ok /\ (\A j \in 1..(i - 1) : FieldOrder[j].ok)
           => config.result = FieldOrder[i].code

\* A configuration with a bad port and a bad timeout is refused for its port.
C27_Witness ==
  /\ config.result = "INVALID_PORT"
  /\ config.dialogTimeout = 70000
  /\ config.logLevel = "invalid-level"


\* C28: every session in the session table has a timeout within the
\* inclusive range of 10 s to 60000 s, whichever path created it (the tool
\* call or the test-session route).
C28_TimeoutInRange ==
  \A id \in DOMAIN table : objs[table[id]].secs \in 10..60000


\* The session of a tool call is over: it was completed, it timed out or
\* it was aborted (one of its continuations has been invoked).
Over(o) == o \in Calls /\ objs[o].invs # <<>>

\* C29: a response is appended to a session's responses only while the
\* session is active: once it has timed out, been aborted by shutdown or
\* been completed, no step (in particular none of a submission that was
\* suspended in image processing) appends to its responses.
C29_AppendOnlyWhileActive ==
  [][\A o \in 1..Len(objs) :
       Over(o) /\ objs[o].fb \in DOMAIN arrays' =>
         arrays'[objs[o].fb] = arrays[objs[o].fb]]_vars


\* The feedback list of session object o.
Responses(os, as, o) == as[os[o].fb]

\* Sequence a is sequence b with one element more at its end.
OneMore(a, b) == Len(a) = Len(b) + 1 /\ SubSeq(a, 1, Len(b)) = b

\* C30: the responses of a session are append-only and its prompt is
\* immutable: every step that changes the feedback list of a session in the
\* table adds exactly one element at its end, and no step changes the
\* workSummary of a session.
C30_AppendOnly ==
  [][\A o \in 1..Len(objs) :
       InTable(o) /\ o <= Len(objs') =>
         /\ objs'[o].workSummary = objs[o].workSummary
         /\ \/ Responses(objs', arrays', o) = Responses(objs, arrays, o)
            \/ OneMore(Responses(objs', arrays', o), Responses(objs, arrays, o))]_vars


\* What a run of the sweep does to the sessions: the ids in due leave the
\* table, the reject continuation of each of them that has one is invoked
\* with SESSION_TIMEOUT, every other session stays as it is, and the sweep
\* returns the number of ids it removed.
SweepEvicts(due) ==
  /\ DOMAIN table' = DOMAIN table \ due
  /\ \A id \in DOMAIN table' : table'[id] = table[id]
  /\ cleanedCount = Cardinality(DOMAIN table \ DOMAIN table')
  /\ Len(objs') = Len(objs)
  /\ arrays' = arrays
  /\ \A o \in 1..Len(objs) :
       IF (\E id \in due : table[id] = o) /\ objs[o].cont
       THEN /\ Len(objs'[o].invs) = Len(objs[o].invs) + 1
            /\ Last(objs'[o].invs).fn = "reject"
            /\ Last(objs'[o].invs).code = "SESSION_TIMEOUT"
       ELSE objs'[o] = objs[o]

C32_LazyExpiry ==
  [][\A sid \in DOMAIN table :
       LET o == table[sid]
           read == get_work_summary(sid)
           submitted == \E text \in BOOLEAN, imgs \in 0..1 : submit_feedback(sid, text, imgs)
       IN read \/ submitted =>
            IF Elapsed(o) > objs[o].timeout
            THEN /\ getSession(sid) = 0
                 /\ sid \notin DOMAIN table'
                 /\ \A id \in DOMAIN table \ {sid} : id \in DOMAIN table' /\ table'[id] = table[id]
                 /\ submitted => lastEmit'.ev = "session_expired"
            ELSE /\ getSession(sid) = o
                 /\ read => table' = table
                 /\ submitted => lastEmit'.ev # "session_expired"]_vars

\* A submission was turned away as expired, its test session is gone from
\* the table, and the server has not been stopped.
C32_Witness ==
  /\ lastEmit.ev = "session_expired"
  /\ proc = "running"
  /\ stopPc = "idle"
  /\ webRunning
  /\ \E o \in 1..Len(objs) : ~objs[o].cont /\ ~InTable(o) /\ UniqueId(o)


\* C33: in WebServer.stop the sessions are aborted before the listener is
\* closed, and the wait for the release of the port comes only after that:
\* the step that starts closing the server is the one that has cleared the
\* session table, the server is still listening until the close has called
\* back, and waitForPortRelease is entered from the completed close only.
C33_StopOrder ==
  [][/\ stopPc' = "closing" /\ stopPc # "closing" =>
          /\ stopPc = "idle"
          /\ webRunning /\ webRunning'
          /\ table' = EmptyTable
          /\ \A o \in Calls : InTable(o) => Last(objs'[o].invs).code = "SERVER_SHUTDOWN"
     /\ stopPc' = "releasing" /\ stopPc # "releasing" =>
          /\ stopPc = "closing"
          /\ webRunning /\ ~webRunning'
     /\ stopPc = "closing" /\ stopPc' = "closing" => webRunning']_vars

\* stop waits for the release of the port, after a shutdown that aborted a
\* pending tool call.
C33_Witness ==
  /\ stopPc = "releasing"
  /\ ~webRunning
  /\ \E o \in Calls : objs[o].invs # <<>> /\ objs[o].invs[1].code = "SERVER_SHUTDOWN"


\* The step answers a submit_feedback for sid with a rejection.
RejectedStep(sid) ==
  /\ lastEmit'.ev \in {"session_expired", "empty_submission"}
  /\ \E text \in BOOLEAN, imgs \in 0..1 : submit_feedback(sid, text, imgs)

\* C34 as stated: a rejected submission leaves the session table unchanged;
\* no session is added, removed or modified by handling the event.
C34_RejectionTouchesNothing ==
  [][\A sid \in SessionIds :
       RejectedStep(sid) => table' = table /\ objs' = objs /\ arrays' = arrays]_vars

\* C34: a rejected submission adds no session and modifies none, and it
\* removes none but the session the event names when that session's deadline
\* has passed (getSession runs before the emptiness check and evicts it); a
\* submission rejected as empty leaves the table unchanged.
C34_RejectionEvictsExpiredOnly ==
  [][\A sid \in SessionIds :
       RejectedStep(sid) =>
         /\ objs' = objs
         /\ arrays' = arrays
         /\ table' = IF sid \in DOMAIN table /\ Elapsed(table[sid]) > objs[table[sid]].timeout
                     THEN Remove(table, sid) ELSE table
         /\ lastEmit'.ev = "empty_submission" => table' = table]_vars

\* A submission was turned away as expired and no session is left, although
\* the sweep is still armed and the server runs.
C34_Witness ==
  /\ lastEmit.ev = "session_expired"
  /\ table = EmptyTable
  /\ cleanupArmed
  /\ stopPc = "idle"
  /\ \E o \in 1..Len(objs) : ~objs[o].cont


\* Nothing of the probe is left to run.
ProbeQuiet ==
  /\ probe.pc # "idle"
  /\ probe.pending = {}
  /\ ~probe.timer
  /\ probe.closing = "none"

\* C35: isPortAvailable settles its result exactly once whatever the order
\* of the listen callback, the error event and the 1-second timeout (never
\* twice, and once when nothing is left to run), and the result is true
\* exactly when the listen callback ran before the other two; an error or a
\* timeout coming first yields false.
C35_SettlesOnce ==
  /\ probe.resolves <= 1
  /\ ProbeQuiet => probe.resolves = 1
  /\ probe.resolves = 1 =>
       /\ probe.events # <<>>
       /\ probe.result = "true" <=> probe.events[1] = "listening"
       /\ probe.events[1] \in {"error", "timeout"} => probe.result = "false"

\* The watchdog fired first and the error event came after it; the probe
\* has answered false.
C35_Witness ==
  /\ probe.events = <<"timeout", "error">>
  /\ probe.resolves = 1
  /\ probe.result = "false"


\* C36: forceReleasePort never trusts the return value of a kill on its
\* own.  It reports true only when its first lookup found no occupant or
\* when a fresh lookup made after a kill that reported success found none;
\* it reports false when that lookup still finds an occupant and when both
\* the graceful and the forced kill failed.
C36_VerifiedRelease ==
  LET r == trail.release
  IN r.out # NoRet =>
       /\ r.out = Ok(1) <=> (r.found = "free" \/ r.verify = "free")
       /\ r.verify = "occupied" => r.out = Ok(0)
       /\ r.graceful = "failed" /\ r.forced = "failed" => r.out = Ok(0) /\ r.verify = "none"
       /\ r.verify # "none" => r.found = "occupied" /\ "ok" \in {r.graceful, r.forced}
       /\ r.out = Ok(1) /\ "ok" \in {r.graceful, r.forced} => r.verify = "free"

\* The forced kill reported success, yet the lookup after it still found an
\* occupant and forceReleasePort answered false.
C36_Witness ==
  LET r == trail.release
  IN /\ r.graceful = "failed" /\ r.forced = "ok"
     /\ r.verify = "occupied"
     /\ r.out = Ok(0)


\* C37: whenever the web server is running (the close of a stop under way
\* set aside), also after a stop followed by a new start, the cleanup
\* interval of its SessionStorage is armed.
C37_SweepArmedWhileRunning ==
  webRunning /\ stopPc # "closing" => cleanupArmed


\* The elements of a sequence.
Range(q) == {q[k] : k \in 1..Len(q)}

\* C38: feedback_submitted is sent for a submission to the session of a
\* tool call only if that submission is delivered to the caller: after the
\* step the promise of the call is fulfilled with responses that contain
\* the submission, and the tool result is the success, not a timeout or
\* shutdown error.
C38_SubmittedMeansDelivered ==
  [][AcceptStep /\ lastEmit'.obj \in Calls =>
       LET o == lastEmit'.obj
       IN /\ objs'[o].promise.state = "fulfilled"
          /\ lastEmit'.n \in Range(objs'[o].promise.value)
          /\ objs'[o].result.status = "ok"]_vars


\* C39: with killProcessOnPortConflict off, WebServer.start sends no kill to
\* any process, in forced-port and in first-available mode and whatever
\* cleanupPortOnStart is.
C39_StartKillsNothingWithoutFlag ==
  op.fn = "start" /\ ~op.kill => trail.kills = <<>>

====
